---- MODULE Spec2Model ----
(***************************************************************************)
(* A model of the ExoLab agents service: the two chat routers              *)
(* (src/chat/chatagent.py, src/chat/newchatagent.py) over the shared       *)
(* chat_history table, and the content-generation routes.                  *)
(***************************************************************************)
EXTENDS Integers, Sequences, FiniteSets, TLC

(***************************************************************************)
(* Bounds of the model.                                                    *)
(***************************************************************************)
\* Session ids uuid4 can hand out: 1..MaxSessions.
MaxSessions == 2
\* Chat requests (create or message) begun in one behaviour.
MaxRequests == 3

(***************************************************************************)
(* Program constants.                                                      *)
(***************************************************************************)
\* chat_history.messages[-5:]
RecentCount == 5

Routers == {"chat", "newchat"}
\* Two handler coroutines may be in flight at once.
Slots == {1, 2}
\* A session id a client made up itself (never produced by uuid4).
ClientIds == {0}
UuidIds == 1..MaxSessions
SessionIds == ClientIds \cup UuidIds

VARIABLES
    chat_history,      \* the chat_history table: session id -> stored messages
    summary_memories,  \* router -> its module-level dict: session id -> memory
    uuids,             \* the session ids uuid4 has produced so far
    known,             \* the session ids a 200 response has given to a client
    nreq,              \* chat requests begun so far
    req,               \* slot -> the chat handler coroutine running in it
    server,            \* "up", or "exited" once SystemExit has left a handler
    limiter,           \* module -> the level of its AsyncLimiter
    job,               \* the content-generation request being handled
    tasks              \* the units of work (external calls) of that request

chatVars == <<chat_history, summary_memories, uuids, known, nreq, req>>

routeVars == <<server, limiter, job, tasks>>

vars == <<chat_history, summary_memories, uuids, known, nreq, req,
          server, limiter, job, tasks>>

(***************************************************************************)
(* Exceptions and strings.  A string is a sequence of pieces, so that      *)
(* concatenation and f-strings are \o.                                     *)
(***************************************************************************)
None == [type |-> "None", status |-> 0, text |-> << >>]
Exception(text) == [type |-> "Exception", status |-> 0, text |-> text]
ValueError(text) == [type |-> "ValueError", status |-> 0, text |-> text]
HTTPException(status, detail) ==
    [type |-> "HTTPException", status |-> status, text |-> detail]
\* sys.exit(1)
SystemExit == [type |-> "SystemExit", status |-> 1, text |-> <<"1">>]

\* str(e); starlette's HTTPException prints as "<status_code>: <detail>".
Str(e) ==
    IF e.type = "HTTPException" THEN <<ToString(e.status), ": ">> \o e.text
    ELSE e.text

\* except Exception: SystemExit derives from BaseException only.
IsException(e) == e.type \notin {"None", "SystemExit"}

(***************************************************************************)
(* Messages and their contents.                                            *)
(***************************************************************************)
Min(a, b) == IF a <= b THEN a ELSE b
Max(a, b) == IF a >= b THEN a ELSE b

Empty == <<"", 0>>
UserText(n) == <<"msg", n>>
ReplyText(n) == <<"reply", n>>

SystemMessage(c) == [kind |-> "System", content |-> c]
HumanMessage(c) == [kind |-> "Human", content |-> c]
AIMessage(c) == [kind |-> "AI", content |-> c]

\* SystemMessage(content="") in chatagent, "Welcome to the chat!" in newchatagent.
WelcomeContent(router) ==
    IF router = "chat" THEN Empty ELSE <<"Welcome to the chat!", 0>>

\* [msg.content for msg in chat_history.messages]
Contents(h) == [i \in 1..Len(h) |-> h[i].content]

\* seq[-k:]
LastN(seq, k) == SubSeq(seq, Max(1, Len(seq) - k + 1), Len(seq))

(***************************************************************************)
(* The summary memory: the exchanges save_context has been given, oldest   *)
(* first.  (The library folds the oldest of them into a running summary    *)
(* once its token limit is passed; what was saved stays recorded.)         *)
(***************************************************************************)
NewMemory == << >>

SaveContext(mem, input, output) == Append(mem, <<input, output>>)

\* The contents a memory has recorded.
Recorded(mem) ==
    {mem[i][1] : i \in 1..Len(mem)} \cup {mem[i][2] : i \in 1..Len(mem)}

HasMemory(router, sid) == sid \in DOMAIN summary_memories[router]

\* summary_memories[session_id] = ConversationSummaryBufferMemory(...)
SetMemory(mems, sid, mem) == (sid :> mem) @@ mems

RecentMessages_keepsSix(h) == LastN(h, RecentCount + 1)

\* chat_history.messages[-5:]: the recent messages get_conversation_context keeps.
RecentMessages(h) == LastN(h, RecentCount)

SummaryEntry(mem) ==
    [kind |-> "System", content |-> <<"Conversation Summary: ", 0>>, summary |-> mem]

\* get_conversation_context, on the table row h and the router's dict mems.
ConversationContext(mems, h, sid) ==
    IF sid \in DOMAIN mems
    THEN <<SummaryEntry(mems[sid])>> \o RecentMessages(h)
    ELSE h

GetConversationContext(router, sid) ==
    ConversationContext(summary_memories[router], chat_history[sid], sid)

\* msg.__class__.__name__, in pieces.
ClassName(msg) == <<msg.kind, "Message">>

\* .replace('Message', '')
KindLabel(msg) == SelectSeq(ClassName(msg), LAMBDA piece : piece # "Message")

\* get_agent_input: one line "<Kind>: <content>" per context entry.
AgentInput(context) ==
    [i \in 1..Len(context) |->
        [label |-> KindLabel(context[i]),
         content |-> context[i].content,
         summary |-> IF "summary" \in DOMAIN context[i]
                     THEN context[i].summary ELSE << >>]]

\* A prompt that is the context text alone.
Prompt_contextOnly(context, text) == AgentInput(context)

\* prompt = f"{context_text}\nUser: {user_message_content}"
Prompt(context, text) ==
    Append(AgentInput(context),
           [label |-> <<"User">>, content |-> text, summary |-> << >>])

(***************************************************************************)
(* Handler coroutines.                                                     *)
(***************************************************************************)
NoResponse == [status |-> 0]

Idle ==
    [pc |-> "idle", router |-> "chat", op |-> "none", session_id |-> 0,
     text |-> Empty, n |-> 0, h0 |-> << >>, hEnd |-> << >>, prompt |-> << >>,
     overlapped |-> FALSE, response |-> NoResponse]

InFlight(s) == req[s].pc = "awaiting"

\* Another handler is between its first write and its response on session sid.
Overlaps(s, sid) ==
    \E o \in Slots \ {s} : InFlight(o) /\ req[o].session_id = sid

MarkOverlap(r, s, sid) ==
    [o \in Slots |->
        IF o # s /\ r[o].pc = "awaiting" /\ r[o].session_id = sid
        THEN [r[o] EXCEPT !.overlapped = TRUE] ELSE r[o]]

\* str(uuid.uuid4()): an id nothing has used.
Uuid4Choices ==
    {i \in UuidIds : i \notin uuids /\ chat_history[i] = << >>
                     /\ \A r \in Routers : ~HasMemory(r, i)}

Uuid4 == CHOOSE i \in Uuid4Choices : \A j \in Uuid4Choices : i <= j

WelcomeHistory_never(router, h) == h

\* The welcome step of create_chat: history and memory after it.
WelcomeHistory(router, h) ==
    IF h = << >> THEN Append(h, SystemMessage(WelcomeContent(router))) ELSE h

WelcomeMemory(router, h, mem) ==
    IF h = << >>
    THEN SaveContext(mem, WelcomeContent(router), WelcomeContent(router))
    ELSE mem

\* create_chat up to its await of run_chat_agent.
CreateChatBegin(s, router) ==
    /\ server = "up"
    /\ ~InFlight(s)
    /\ nreq < MaxRequests
    /\ Uuid4Choices # {}
    /\ LET sid == Uuid4
           n == nreq + 1
           text == UserText(n)
           h0 == chat_history[sid]
           h1 == WelcomeHistory(router, h0)
           m1 == WelcomeMemory(router, h0, NewMemory)
           h2 == Append(h1, HumanMessage(text))
           m2 == SaveContext(m1, text, Empty)
           mems == SetMemory(summary_memories[router], sid, m2)
       IN /\ nreq' = n
          /\ uuids' = uuids \cup {sid}
          /\ chat_history' = [chat_history EXCEPT ![sid] = h2]
          /\ summary_memories' = [summary_memories EXCEPT ![router] = mems]
          /\ req' = [MarkOverlap(req, s, sid) EXCEPT ![s] =
                [pc |-> "awaiting", router |-> router, op |-> "create",
                 session_id |-> sid, text |-> text, n |-> n, h0 |-> h0,
                 hEnd |-> << >>,
                 prompt |-> Prompt(ConversationContext(mems, h2, sid), text),
                 overlapped |-> Overlaps(s, sid), response |-> NoResponse]]
          /\ UNCHANGED known
          /\ UNCHANGED routeVars

\* if session_id not in summary_memories: summary_memories[session_id] = ...
EnsureMemory(mems, sid) ==
    IF sid \in DOMAIN mems THEN mems ELSE SetMemory(mems, sid, NewMemory)

\* chat_message up to its await of run_chat_agent.
ChatMessageBegin(s, router, sid) ==
    /\ server = "up"
    /\ ~InFlight(s)
    /\ nreq < MaxRequests
    /\ sid \in known \cup ClientIds
    /\ LET n == nreq + 1
           text == UserText(n)
           h0 == chat_history[sid]
           m0 == EnsureMemory(summary_memories[router], sid)
           h1 == Append(h0, HumanMessage(text))
           mems == [m0 EXCEPT ![sid] = SaveContext(m0[sid], text, Empty)]
       IN /\ nreq' = n
          /\ chat_history' = [chat_history EXCEPT ![sid] = h1]
          /\ summary_memories' = [summary_memories EXCEPT ![router] = mems]
          /\ req' = [MarkOverlap(req, s, sid) EXCEPT ![s] =
                [pc |-> "awaiting", router |-> router, op |-> "message",
                 session_id |-> sid, text |-> text, n |-> n, h0 |-> h0,
                 hEnd |-> << >>,
                 prompt |-> Prompt(ConversationContext(mems, h1, sid), text),
                 overlapped |-> Overlaps(s, sid), response |-> NoResponse]]
          /\ UNCHANGED <<uuids, known>>
          /\ UNCHANGED routeVars

ReplyHistory_repeatsUser(h, reply) == Append(Append(h, h[Len(h)]), AIMessage(reply))

\* chat_history.add_messages([reply_message])
ReplyHistory(h, reply) == Append(h, AIMessage(reply))

\* create_chat and chat_message from the agent's reply to the 200 response.
ChatReply(s) ==
    /\ server = "up"
    /\ InFlight(s)
    /\ LET r == req[s]
           sid == r.session_id
           reply == ReplyText(r.n)
           h == ReplyHistory(chat_history[sid], reply)
           mems == summary_memories[r.router]
       IN /\ chat_history' = [chat_history EXCEPT ![sid] = h]
          /\ summary_memories' = [summary_memories EXCEPT ![r.router] =
                [mems EXCEPT ![sid] = SaveContext(mems[sid], r.text, reply)]]
          /\ known' = known \cup {sid}
          /\ req' = [req EXCEPT ![s] = [r EXCEPT
                !.pc = "done", !.hEnd = h,
                !.response = [status |-> 200, session_id |-> sid,
                              reply |-> reply, history |-> Contents(h)]]]
          /\ UNCHANGED <<uuids, nreq>>
          /\ UNCHANGED routeVars

\* An except clause that takes the last stored message back.
ChatAgentError_rollsBack(s) ==
    /\ server = "up"
    /\ InFlight(s)
    /\ LET sid == req[s].session_id
           h == SubSeq(chat_history[sid], 1, Len(chat_history[sid]) - 1)
       IN /\ chat_history' = [chat_history EXCEPT ![sid] = h]
          /\ req' = [req EXCEPT ![s] = [req[s] EXCEPT
                !.pc = "done", !.hEnd = h,
                !.response = [status |-> 500,
                              detail |-> Str(Exception(<<"agent error">>))]]]
    /\ UNCHANGED <<summary_memories, uuids, known, nreq>>
    /\ UNCHANGED routeVars

\* run_chat_agent raises: except Exception -> HTTPException(500, str(e)).
ChatAgentError(s) ==
    /\ server = "up"
    /\ InFlight(s)
    /\ req' = [req EXCEPT ![s] = [req[s] EXCEPT
            !.pc = "done", !.hEnd = chat_history[req[s].session_id],
            !.response = [status |-> 500,
                          detail |-> Str(Exception(<<"agent error">>))]]]
    /\ UNCHANGED <<chat_history, summary_memories, uuids, known, nreq>>
    /\ UNCHANGED routeVars

Role_aiUnknown(kind) ==
    CASE kind = "System" -> "system"
      [] kind = "Human" -> "user"
      [] OTHER -> "unknown"

\* The isinstance chain of get_messages.
Role(kind) ==
    CASE kind = "System" -> "system"
      [] kind = "Human" -> "user"
      [] kind = "AI" -> "agent"
      [] OTHER -> "unknown"

\* history.append({"role": role, "content": msg.content}) for each message.
MessagesHistory(h) ==
    [i \in 1..Len(h) |-> [role |-> Role(h[i].kind), content |-> h[i].content]]

\* GET /chat/messages: a plain def handler, one read of the session's rows;
\* ok is whether the read succeeded.
GetMessages(s, sid, ok) ==
    /\ server = "up"
    /\ ~InFlight(s)
    /\ nreq < MaxRequests
    /\ nreq' = nreq + 1
    /\ req' = [req EXCEPT ![s] =
            [Idle EXCEPT !.pc = "done", !.router = "chat", !.op = "messages",
                         !.session_id = sid, !.n = nreq + 1,
                         !.h0 = chat_history[sid], !.hEnd = chat_history[sid],
                         !.response =
                            IF ok
                            THEN [status |-> 200, session_id |-> sid,
                                  history |-> MessagesHistory(chat_history[sid])]
                            ELSE [status |-> 500,
                                  detail |-> Str(Exception(<<"database error">>))]]]
    /\ UNCHANGED <<chat_history, summary_memories, uuids, known>>
    /\ UNCHANGED routeVars

InitChat ==
    /\ chat_history = [sid \in SessionIds |-> << >>]
    /\ summary_memories = [r \in Routers |-> << >>]
    /\ uuids = {}
    /\ known = {}
    /\ nreq = 0
    /\ req = [s \in Slots |-> Idle]

NextChat ==
    \/ \E s \in Slots, r \in Routers : CreateChatBegin(s, r)
    \/ \E s \in Slots, r \in Routers, sid \in SessionIds : ChatMessageBegin(s, r, sid)
    \/ \E s \in Slots : ChatReply(s)
    \/ \E s \in Slots : ChatAgentError(s)
    \/ \E s \in Slots, sid \in SessionIds, ok \in BOOLEAN : GetMessages(s, sid, ok)

(***************************************************************************)
(* The content-generation routes.  One request is followed at a time: the  *)
(* handler coroutine (job) and the units of work it awaits (tasks).        *)
(***************************************************************************)
\* AsyncLimiter(max_rate=60, time_period=60)
MaxRate == 60
TimePeriod == 60
\* subtopics_list[:10]
MaxResults == 10
\* output.topics[:10]
MaxTopicsReturned == 10

\* Topics of one /subtopics/extract request.
MaxTopics == 3
\* Subtopics, over all topic items, of one /questions/generate request.
MaxQuestionSubtopics == 1
\* Subtopics, over all topic items, of one /explanations/generate request.
MaxExplanationSubtopics == 3
\* Topics of one /subtopics/extract request whose tasks are followed in list
\* order (more than the handler's slice keeps).
MaxLargeTopics == 11
\* Topics (and reading materials) the course agent produces for one request.
MaxAgentTopics == 11
\* Texts of one /vectorize/array request.
MaxTexts == 2
\* Rows of a vector table (subtopics, biolinks) at the time of a search.
MaxRows == 3
\* Lines of the text the diagram model returns.
MaxTextLines == 2
\* Polls of one /videos/generate request that find the generation under way
\* (the loop itself has no limit); the poll that ends the loop comes on top.
MaxPolls == 2

\* The modules that own an AsyncLimiter.
LimiterNames == {"subtopics", "diagrams"}

FanOutRoutes == {"subtopics", "explanations", "questions"}
DiagramRoutes == {"diagram", "diagram_png"}

\* The limiter a route's calls go through ("none": the module has none).
LimiterOf(route) ==
    IF route = "subtopics" THEN "subtopics"
    ELSE IF route \in DiagramRoutes THEN "diagrams"
    ELSE "none"

NoReply == [status |-> 0, detail |-> << >>, body |-> << >>]

IdleJob ==
    [route |-> "none", pc |-> "idle", input |-> << >>, raised |-> None,
     response |-> NoReply, writers |-> {}, polls |-> 0, state |-> ""]

\* A unit of work: one external call the handler is to make.
Task(prompt, occ) ==
    [prompt |-> prompt, occ |-> occ, st |-> "created", calls |-> 0,
     acquired |-> FALSE, out |-> << >>]

RECURSIVE Flatten(_)
Flatten(ss) == IF ss = << >> THEN << >> ELSE Head(ss) \o Flatten(Tail(ss))

RECURSIVE SumSeq(_)
SumSeq(ns) == IF ns = << >> THEN 0 ELSE Head(ns) + SumSeq(Tail(ns))

(***************************************************************************)
(* Request bodies.                                                         *)
(***************************************************************************)
Resources == <<"Chapter 1">>

\* TopicsAndResources.topics
TopicLists == {[i \in 1..n |-> <<"topic", i>>] : n \in 0..MaxTopics}

\* The sizes of the subtopic lists of at most two topic items, k in all at most.
ItemSizes(k) ==
    {<< >>} \cup {<<a>> : a \in 0..k}
            \cup {<<a, b>> : a \in 0..k, b \in 0..k}

SizesUpTo(k) == {z \in ItemSizes(k) : SumSeq(z) <= k}

\* LectureSubtopicsOutputModel items; a list of three names has a duplicate.
Items(sizes) ==
    [i \in 1..Len(sizes) |->
        [topic |-> <<"topic", i>>,
         subtopics |-> [j \in 1..sizes[i] |-> <<"sub", (j + 1) \div 2>>]]]

QuestionInputs == {Items(z) : z \in SizesUpTo(MaxQuestionSubtopics)}
ExplanationInputs == {Items(z) : z \in SizesUpTo(MaxExplanationSubtopics)}

\* QuestionGenerationRequest.explanations: one for each subtopic of the first item.
Explanations(items) ==
    IF items = << >> THEN << >>
    ELSE [j \in 1..Len(items[1].subtopics) |->
            [topic |-> items[1].topic, subtopic |-> items[1].subtopics[j],
             explanation |-> <<"explanation", j>>]]

\* The total number of subtopics the items list.
TotalSubtopics(items) == SumSeq([i \in 1..Len(items) |-> Len(items[i].subtopics)])

(***************************************************************************)
(* The task lists the fan-out helpers build.                               *)
(***************************************************************************)
\* tasks = [extract_subtopics(topic, resources) for topic in topics]
SubtopicTasks(topics) ==
    [i \in 1..Len(topics) |->
        Task([topic |-> topics[i], resources |-> Resources], <<i, 0>>)]

\* A list with one task per distinct subtopic name of an item.
ExplanationTasks_distinctOnly(items) ==
    Flatten([i \in 1..Len(items) |->
        LET firsts == {j \in 1..Len(items[i].subtopics) :
                          \A h \in 1..(j - 1) :
                              items[i].subtopics[h] # items[i].subtopics[j]}
        IN [f \in 1..Cardinality(firsts) |->
              LET j == CHOOSE x \in firsts :
                          Cardinality({y \in firsts : y < x}) = f - 1
              IN Task([topic |-> items[i].topic,
                       subtopic |-> items[i].subtopics[j],
                       others |-> items[i].subtopics], <<i, j>>)]])

\* generate_explanation(item.topic, sub, item.subtopics) for item ... for sub ...
ExplanationTasks(items) ==
    Flatten([i \in 1..Len(items) |->
        [j \in 1..Len(items[i].subtopics) |->
            Task([topic |-> items[i].topic, subtopic |-> items[i].subtopics[j],
                  others |-> items[i].subtopics], <<i, j>>)]])

Difficulties_noHard == <<"Easy", "Medium">>

Difficulties == <<"Easy", "Medium", "Hard">>
QuestionTypes == <<"Multiple Choice", "Open Answer">>

\* explanation_map.get((topic, sub), ""): the dict keeps the last entry of a key.
ExplanationOf(explanations, topic, sub) ==
    LET hits == {e \in 1..Len(explanations) :
                    explanations[e].topic = topic /\ explanations[e].subtopic = sub}
    IN IF hits = {} THEN <<"", 0>>
       ELSE explanations[CHOOSE e \in hits : \A f \in hits : f <= e].explanation

\* The six tasks run_question_generation appends for one subtopic.
SubtopicQuestionTasks(item, i, j, explanations) ==
    Flatten([d \in 1..Len(Difficulties) |->
        [q \in 1..Len(QuestionTypes) |->
            Task([topic |-> item.topic, subtopic |-> item.subtopics[j],
                  explanation |-> ExplanationOf(explanations, item.topic,
                                                item.subtopics[j]),
                  others |-> item.subtopics,
                  difficulty |-> Difficulties[d],
                  question_type |-> QuestionTypes[q]], <<i, j>>)]])

QuestionTasks(items) ==
    Flatten([i \in 1..Len(items) |->
        Flatten([j \in 1..Len(items[i].subtopics) |->
            SubtopicQuestionTasks(items[i], i, j, Explanations(items))])])

BuildTasks(route, input) ==
    CASE route = "subtopics" -> SubtopicTasks(input)
      [] route = "explanations" -> ExplanationTasks(input)
      [] route = "questions" -> QuestionTasks(input)
      [] OTHER -> <<Task([prompt |-> input], <<1, 0>>)>>

(***************************************************************************)
(* Starting the calls.                                                     *)
(***************************************************************************)
\* Runner.run (or the provider's create call) is entered.
Issue(t, acquired) ==
    [t EXCEPT !.st = "running", !.calls = @ + 1, !.acquired = acquired]

\* A task of a module without limiter calls Runner.run at once.
StartUnlimited(t) == Issue(t, FALSE)

\* "async with limiter:" with capacity left is entered without waiting.
StartLimited(t, level, i) ==
    IF level + i <= MaxRate THEN Issue(t, TRUE) ELSE [t EXCEPT !.st = "waiting"]

\* The first pass of the event loop over the new tasks, in list order.
StartTasks(ts, lname, level) ==
    [i \in 1..Len(ts) |->
        IF lname = "none" THEN StartUnlimited(ts[i])
        ELSE StartLimited(ts[i], level, i)]

Acquirers(ts) == {i \in 1..Len(ts) : ts[i].acquired}

\* The limiters a request of the route does not use are drained: requests to
\* different modules are followed one module at a time.
Quiet(route) ==
    \A l \in LimiterNames \ {LimiterOf(route)} : limiter[l] = 0

NewLevel(level, ts) == level + Cardinality(Acquirers(ts))

\* The handler is entered and runs to its first await.
BeginJob(route, input) ==
    /\ server = "up"
    /\ job.pc = "idle"
    /\ Quiet(route)
    /\ LET l == LimiterOf(route)
           level == IF l = "none" THEN 0 ELSE limiter[l]
           ts == StartTasks(BuildTasks(route, input), l, level)
       IN /\ tasks' = ts
          /\ limiter' = IF l = "none" THEN limiter
                        ELSE [limiter EXCEPT ![l] = NewLevel(level, ts)]
          /\ job' = [IdleJob EXCEPT !.route = route, !.pc = "running",
                                    !.input = input, !.writers = Acquirers(ts)]
    /\ UNCHANGED server
    /\ UNCHANGED chatVars

\* POST /subtopics/extract
ExtractLectureSubtopics(topics) == BeginJob("subtopics", topics)

\* POST /explanations/generate
GenerateSubtopicExplanations(items) == BeginJob("explanations", items)

\* POST /questions/generate
GenerateQuestions(items) == BeginJob("questions", items)

\* POST /diagram/generate and /diagram/generate/png
GenerateDiagram(route) == BeginJob(route, <<"prompt">>)

\* POST /videos/generate: client.generations.create is awaited.
GenerateVideo == BeginJob("video", <<"prompt">>)

\* A waiting task finds capacity in its limiter and calls Runner.run.
TaskAcquire(i) ==
    /\ server = "up"
    /\ job.pc = "running"
    /\ i \in 1..Len(tasks)
    /\ tasks[i].st = "waiting"
    /\ limiter[LimiterOf(job.route)] < MaxRate
    /\ limiter' = [limiter EXCEPT ![LimiterOf(job.route)] = @ + 1]
    /\ tasks' = [tasks EXCEPT ![i] = Issue(@, TRUE)]
    /\ job' = [job EXCEPT !.writers = @ \cup {i}]
    /\ UNCHANGED server
    /\ UNCHANGED chatVars

\* The limiter leaks max_rate / time_period units of level per second.  Time
\* is let pass where a task waits for it, or between requests.
Tick(l) ==
    /\ server = "up"
    /\ limiter[l] > 0
    /\ \/ job.pc = "idle"
       \/ /\ job.pc = "running"
          /\ LimiterOf(job.route) = l
          /\ \E i \in 1..Len(tasks) : tasks[i].st = "waiting"
    /\ limiter' = [limiter EXCEPT ![l] = Max(0, @ - MaxRate \div TimePeriod)]
    /\ UNCHANGED <<server, job, tasks>>
    /\ UNCHANGED chatVars

\* An output that depends on what the other tasks did to the limiter.
TaskOutput_readsLimiter(t) ==
    [of |-> IF limiter["subtopics"] > 1 THEN tasks[1].prompt ELSE t.prompt]

\* result.final_output of the task's own run.
TaskOutput(t) == [of |-> t.prompt]

FinishedTask(t) == [t EXCEPT !.st = "ok", !.out = TaskOutput(t)]

\* One LLM call of a fan-out batch returns.
TaskReturns(i) ==
    /\ server = "up"
    /\ job.pc = "running"
    /\ job.route \in FanOutRoutes
    /\ i \in 1..Len(tasks)
    /\ tasks[i].st = "running"
    /\ tasks' = [tasks EXCEPT ![i] = FinishedTask(@)]
    /\ UNCHANGED <<server, limiter, job>>
    /\ UNCHANGED chatVars

\* A failed call that is made again.
FailedTask_retries(t) == Issue(t, t.acquired)

\* The call raised; nothing calls it again.
FailedTask(t) == [t EXCEPT !.st = "failed"]

\* except Exception as e: raise HTTPException(status_code=500, detail=str(e))
ErrorReply(e) == [status |-> 500, detail |-> Str(e), body |-> << >>]

\* An awaited call raises: gather hands the first exception to the handler,
\* whose except clause answers.  The tasks gather leaves running go on in
\* the background; the handler never looks at them again.
CallRaises(i) ==
    /\ server = "up"
    /\ job.pc = "running"
    /\ job.route \in FanOutRoutes \cup DiagramRoutes \cup {"video", "topics"}
    /\ i \in 1..Len(tasks)
    /\ tasks[i].st = "running"
    /\ LET e == Exception(<<"call failed ", ToString(i)>>)
       IN /\ tasks' = [tasks EXCEPT ![i] = FailedTask(@)]
          /\ job' = [job EXCEPT !.pc = "done", !.raised = e,
                                !.response = ErrorReply(e)]
    /\ UNCHANGED <<server, limiter>>
    /\ UNCHANGED chatVars

\* A gather that returns with the first result.
GatherDone_firstCompleted(ts) == \E i \in 1..Len(ts) : ts[i].st = "ok"

\* asyncio.gather(*tasks) has every result.
GatherDone(ts) == \A i \in 1..Len(ts) : ts[i].st = "ok"

Results(ts) == [i \in 1..Len(ts) |-> ts[i].out]

\* The 200 body of a fan-out route.
Body(route, results) ==
    IF route = "subtopics" THEN SubSeq(results, 1, Min(MaxResults, Len(results)))
    ELSE results

\* gather returns the results in task order and the handler answers 200.
GatherReturns ==
    /\ server = "up"
    /\ job.pc = "running"
    /\ job.route \in FanOutRoutes
    /\ GatherDone(tasks)
    /\ job' = [job EXCEPT !.pc = "done",
                          !.response = [status |-> 200, detail |-> << >>,
                                        body |-> Body(job.route, Results(tasks))]]
    /\ UNCHANGED <<server, limiter, tasks>>
    /\ UNCHANGED chatVars

(***************************************************************************)
(* Topics.                                                                 *)
(***************************************************************************)
\* POST /topics/extract: run_course_agent is awaited.
ExtractLectureTopics == BeginJob("topics", <<"content">>)

\* A CourseContentOutput with n topics and n reading materials.
CourseContentOutput(n) ==
    [topics |-> [i \in 1..n |-> <<"topic", i>>],
     description |-> <<"description", n>>,
     recourses |-> [i \in 1..n |-> <<"text", i>>]]

TopicsBody_uncut(output) ==
    [topics |-> output.topics,
     description |-> output.description,
     recourses |-> output.recourses]

\* The 200 body of /topics/extract.
TopicsBody(output) ==
    [topics |-> SubSeq(output.topics, 1, Min(MaxTopicsReturned, Len(output.topics))),
     description |-> output.description,
     recourses |-> output.recourses]

\* The agent's final output arrives and the handler answers 200.
TopicsCallReturns(n) ==
    /\ server = "up"
    /\ job.pc = "running"
    /\ job.route = "topics"
    /\ tasks[1].st = "running"
    /\ n \in 0..MaxAgentTopics
    /\ tasks' = [tasks EXCEPT ![1] =
            [@ EXCEPT !.st = "ok", !.out = CourseContentOutput(n)]]
    /\ job' = [job EXCEPT !.pc = "done",
                          !.response = [status |-> 200, detail |-> << >>,
                                        body |-> TopicsBody(CourseContentOutput(n))]]
    /\ UNCHANGED <<server, limiter>>
    /\ UNCHANGED chatVars

(***************************************************************************)
(* Diagrams.                                                               *)
(***************************************************************************)
\* The external steps of the PNG pipeline that end in sys.exit(1) on failure.
PipelineSteps == {"pdflatex", "axohelp", "pdfinfo", "page size", "gs", "convert"}

\* A line of the model's text: LaTeX code, or a comment
\* "%% Diagram Size: <w> x <h>" that the pattern matches, w and h being what
\* [\d.]+ matched, character by character.
CodeLine == [kind |-> "code", w |-> << >>, h |-> << >>]
SizeLine(w, h) == [kind |-> "size", w |-> w, h |-> h]

SizeLines ==
    {SizeLine(<<"3", "0", "0">>, <<"2", ".", "5">>),
     SizeLine(<<"2", ".", "5">>, <<"3", "0", "0">>),
     SizeLine(<<"1", ".", "2", ".", "3">>, <<"3", "0", "0">>),
     SizeLine(<<"3", "0", "0">>, <<"1", ".", "2", ".", "3">>)}

\* result.final_output: any text of at most MaxTextLines lines.
ModelTexts == UNION {[1..n -> {CodeLine} \cup SizeLines] : n \in 0..MaxTextLines}

\* re.search: the position of the first match, 0 for no match.
FirstMatch(text) ==
    LET hits == {i \in 1..Len(text) : text[i].kind = "size"}
    IN IF hits = {} THEN 0 ELSE CHOOSE i \in hits : \A k \in hits : i <= k

\* float(s) accepts digits with at most one point.
IsFloat(numeral) ==
    /\ Cardinality({i \in 1..Len(numeral) : numeral[i] = "."}) <= 1
    /\ \E i \in 1..Len(numeral) : numeral[i] # "."

FloatError(numeral) ==
    ValueError(<<"could not convert string to float: ">> \o numeral)

AxodrawDiagramOutput(text, width, height) ==
    [raised |-> None, document_content |-> text,
     diagram_width |-> width, diagram_height |-> height]

Raised(e) ==
    [raised |-> e, document_content |-> << >>,
     diagram_width |-> << >>, diagram_height |-> << >>]

\* parse_axodraw_output: the output, or the exception it raises.
ParseAxodrawOutput(text) ==
    LET match == FirstMatch(text)
    IN IF match = 0
       THEN Raised(ValueError(<<"Diagram size comment not found in the output.">>))
       ELSE IF ~IsFloat(text[match].w) THEN Raised(FloatError(text[match].w))
       ELSE IF ~IsFloat(text[match].h) THEN Raised(FloatError(text[match].h))
       ELSE AxodrawDiagramOutput(text, text[match].w, text[match].h)

\* The 200 body of /diagram/generate.
DiagramBody(diagram_output) ==
    [document_content |-> diagram_output.document_content,
     diagram_width |-> diagram_output.diagram_width,
     diagram_height |-> diagram_output.diagram_height]

\* The model's text arrives; generate_diagram or generate_diagram_png goes on
\* to its response.  outcome: "ok", a failing pipeline step, or "oserror".
DiagramCallReturns(text, outcome) ==
    /\ server = "up"
    /\ job.pc = "running"
    /\ job.route \in DiagramRoutes
    /\ tasks[1].st = "running"
    /\ text \in ModelTexts
    /\ outcome \in {"ok", "oserror"} \cup PipelineSteps
    /\ job.route = "diagram" => outcome = "ok"
    /\ ParseAxodrawOutput(text).raised # None => outcome = "ok"
    /\ tasks' = [tasks EXCEPT ![1] = [@ EXCEPT !.st = "ok", !.out = text]]
    /\ LET diagram_output == ParseAxodrawOutput(text)
           e == IF diagram_output.raised # None THEN diagram_output.raised
                ELSE IF outcome = "ok" THEN None
                ELSE IF outcome = "oserror" THEN Exception(<<"[Errno 2] No such file">>)
                ELSE SystemExit
       IN IF e = None
          THEN /\ job' = [job EXCEPT !.pc = "done",
                    !.response = [status |-> 200, detail |-> << >>,
                                  body |-> IF job.route = "diagram"
                                           THEN DiagramBody(diagram_output)
                                           ELSE <<"diagram.png">>]]
               /\ UNCHANGED server
          ELSE IF IsException(e)
          THEN /\ job' = [job EXCEPT !.pc = "done", !.raised = e,
                                     !.response = ErrorReply(e)]
               /\ UNCHANGED server
          ELSE /\ job' = [job EXCEPT !.pc = "done", !.raised = e]
               /\ server' = "exited"
    /\ UNCHANGED limiter
    /\ UNCHANGED chatVars

(***************************************************************************)
(* Videos.                                                                 *)
(***************************************************************************)
\* client.generations.create returns the generation.
VideoCreateReturns ==
    /\ server = "up"
    /\ job.pc = "running"
    /\ job.route = "video"
    /\ tasks[1].st = "running"
    /\ tasks' = [tasks EXCEPT ![1] = FinishedTask(@)]
    /\ job' = [job EXCEPT !.state = "queued"]
    /\ UNCHANGED <<server, limiter>>
    /\ UNCHANGED chatVars

GenerationFailed ==
    HTTPException(500, <<"Generation failed: ", "failure_reason">>)

\* generation.assets.video of the generation poll number p fetched.
VideoAsset(p) == <<"generation.assets.video", p>>

\* A loop that takes any state but "failed" for the end of the generation.
AfterPoll_noWait(j, outcome) ==
    CASE outcome \in {"dreaming", "completed"} ->
            [j EXCEPT !.polls = @ + 1, !.state = outcome, !.pc = "done",
                !.response = [status |-> 200, detail |-> << >>,
                              body |-> VideoAsset(j.polls + 1)]]
      [] outcome = "failed" ->
            [j EXCEPT !.polls = @ + 1, !.state = "failed", !.pc = "done",
                !.raised = GenerationFailed,
                !.response = ErrorReply(GenerationFailed)]
      [] outcome = "raise" ->
            [j EXCEPT !.polls = @ + 1, !.pc = "done",
                !.raised = Exception(<<"poll failed">>),
                !.response = ErrorReply(Exception(<<"poll failed">>))]

\* A loop that gives up at its second poll of a generation under way.
AfterPoll_pollLimit(j, outcome) ==
    CASE outcome = "dreaming" /\ j.polls = 0 ->
            [j EXCEPT !.polls = @ + 1, !.state = "dreaming"]
      [] outcome = "dreaming" /\ j.polls > 0 ->
            [j EXCEPT !.polls = @ + 1, !.state = "dreaming", !.pc = "done",
                !.raised = Exception(<<"timed out">>),
                !.response = ErrorReply(Exception(<<"timed out">>))]
      [] outcome = "completed" ->
            [j EXCEPT !.polls = @ + 1, !.state = "completed", !.pc = "done",
                !.response = [status |-> 200, detail |-> << >>,
                              body |-> VideoAsset(j.polls + 1)]]
      [] outcome = "failed" ->
            [j EXCEPT !.polls = @ + 1, !.state = "failed", !.pc = "done",
                !.raised = GenerationFailed,
                !.response = ErrorReply(GenerationFailed)]
      [] outcome = "raise" ->
            [j EXCEPT !.polls = @ + 1, !.pc = "done",
                !.raised = Exception(<<"poll failed">>),
                !.response = ErrorReply(Exception(<<"poll failed">>))]

\* The handler after one turn of the polling loop, generations.get having
\* returned a generation in the given state, or raised.
AfterPoll(j, outcome) ==
    CASE outcome = "dreaming" ->
            [j EXCEPT !.polls = @ + 1, !.state = "dreaming"]
      [] outcome = "completed" ->
            [j EXCEPT !.polls = @ + 1, !.state = "completed", !.pc = "done",
                !.response = [status |-> 200, detail |-> << >>,
                              body |-> VideoAsset(j.polls + 1)]]
      [] outcome = "failed" ->
            [j EXCEPT !.polls = @ + 1, !.state = "failed", !.pc = "done",
                !.raised = GenerationFailed,
                !.response = ErrorReply(GenerationFailed)]
      [] outcome = "raise" ->
            [j EXCEPT !.polls = @ + 1, !.pc = "done",
                !.raised = Exception(<<"poll failed">>),
                !.response = ErrorReply(Exception(<<"poll failed">>))]

\* One turn of the polling loop: sleep, generations.get, look at the state.
VideoPoll(outcome) ==
    /\ server = "up"
    /\ job.pc = "running"
    /\ job.route = "video"
    /\ tasks[1].st = "ok"
    /\ outcome \in {"dreaming", "completed", "failed", "raise"}
    /\ outcome = "dreaming" => job.polls < MaxPolls
    /\ job' = AfterPoll(job, outcome)
    /\ UNCHANGED <<server, limiter, tasks>>
    /\ UNCHANGED chatVars

(***************************************************************************)
(* Vectorization.                                                          *)
(***************************************************************************)
\* get_embedding's except clause.
EmbeddingError(e) ==
    HTTPException(500, <<"Error generating embeddings: ">> \o Str(e))

\* An HTTPException that leaves a handler is answered by the framework.
FrameworkReply(e) == [status |-> e.status, detail |-> e.text, body |-> << >>]

\* The texts of the request are embedded one after the other; the call of
\* text failAt raises (0: none does).
EmbedAll(n, failAt) ==
    [i \in 1..n |->
        LET t == Task([text |-> <<"text", i>>], <<i, 0>>)
        IN IF failAt = 0 \/ i < failAt THEN FinishedTask(Issue(t, FALSE))
           ELSE IF i = failAt THEN FailedTask(Issue(t, FALSE))
           ELSE t]

\* POST /vectorize (one text) and /vectorize/array: plain def handlers.
Vectorize(route, n, failAt) ==
    /\ server = "up"
    /\ job.pc = "idle"
    /\ Quiet(route)
    /\ route \in {"vectorize", "vectorize_array"}
    /\ n \in 0..MaxTexts
    /\ route = "vectorize" => n = 1
    /\ failAt \in 0..n
    /\ tasks' = EmbedAll(n, failAt)
    /\ LET e == Exception(<<"embedding failed ", ToString(failAt)>>)
       IN job' = [IdleJob EXCEPT !.route = route, !.pc = "done", !.input = n,
                    !.raised = IF failAt = 0 THEN None ELSE e,
                    !.response =
                        IF failAt = 0
                        THEN [status |-> 200, detail |-> << >>,
                              body |-> Results(EmbedAll(n, failAt))]
                        ELSE FrameworkReply(EmbeddingError(e))]
    /\ UNCHANGED <<server, limiter>>
    /\ UNCHANGED chatVars

\* The response (or the failure) has left the server: the request is over and
\* the next one is followed.
RequestEnds ==
    /\ server = "up"
    /\ job.pc = "done"
    /\ job' = IdleJob
    /\ tasks' = << >>
    /\ UNCHANGED <<server, limiter>>
    /\ UNCHANGED chatVars

(***************************************************************************)
(* One schedule of a large subtopics batch: the calls of the batch return  *)
(* (or the first of them fails) in list order, and waiting tasks are woken *)
(* in list order.  Every behaviour of NextBatch is one of the service; the *)
(* other interleavings of the same batch end in the same responses.        *)
(***************************************************************************)
LargeTopicLists == {[i \in 1..n |-> <<"topic", i>>] : n \in 1..MaxLargeTopics}

\* Every task before task i has returned.
InOrder(i) == \A j \in 1..(i - 1) : tasks[j].st = "ok"

\* No task before task i still waits for the limiter.
FirstWaiting(i) == \A j \in 1..(i - 1) : tasks[j].st # "waiting"

NextBatch ==
    \/ \E topics \in LargeTopicLists : ExtractLectureSubtopics(topics)
    \/ \E i \in 1..Len(tasks) : FirstWaiting(i) /\ TaskAcquire(i)
    \/ \E l \in LimiterNames : Tick(l)
    \/ \E i \in 1..Len(tasks) : InOrder(i) /\ TaskReturns(i)
    \/ \E i \in 1..Len(tasks) : InOrder(i) /\ CallRaises(i)
    \/ GatherReturns
    \/ RequestEnds

(***************************************************************************)
(* Vector-similarity search: /chat/query_subtopics and /biolinks/search.   *)
(***************************************************************************)
\* The values of "<#>" (the negative inner product) of the rows with the
\* query vector.
SimilarityValues == {-2, -1}

\* A table at search time: the similarity of each row, in insertion order.
Tables == UNION {[1..n -> SimilarityValues] : n \in 0..MaxRows}

TableRows(table) == [i \in 1..Len(table) |-> [id |-> i, similarity |-> table[i]]]

\* ORDER BY similarity: the rows in any order that sorts them; rows of equal
\* similarity come in an order the database picks.
OrderBySimilarity(rows) ==
    {[i \in 1..Len(rows) |-> rows[p[i]]] :
        p \in {q \in Permutations(1..Len(rows)) :
                  \A i \in 1..Len(rows) : \A j \in 1..Len(rows) :
                      i < j => rows[q[i]].similarity <= rows[q[j]].similarity}}

Limit_oneMore(rows, n) == SubSeq(rows, 1, Min(n + 1, Len(rows)))

\* LIMIT n, n >= 0.
Limit(rows, n) == SubSeq(rows, 1, Min(n, Len(rows)))

\* A negative LIMIT is an error of the query.
QueryError(top_n) ==
    IF top_n < 0 THEN Exception(<<"LIMIT must not be negative">>) ELSE None

\* search_similar_subtopics / bio_search_similar_text inside their plain def
\* handlers: the query is embedded, the rows are ordered and cut.  ordered
\* is the order the database gives; embedded is whether get_embedding
\* returned.
VectorSearch(route, table, top_n, ordered, embedded) ==
    /\ server = "up"
    /\ job.pc = "idle"
    /\ Quiet(route)
    /\ ordered \in OrderBySimilarity(TableRows(table))
    /\ LET t == Issue(Task([text |-> <<"query">>], <<1, 0>>), FALSE)
           e == IF ~embedded THEN Exception(<<"embedding failed">>)
                ELSE QueryError(top_n)
       IN /\ tasks' = <<IF embedded THEN FinishedTask(t) ELSE FailedTask(t)>>
          /\ job' = [IdleJob EXCEPT
                !.route = route, !.pc = "done",
                !.input = [rows |-> TableRows(table), top_n |-> top_n],
                !.raised = e,
                !.response = IF e = None
                             THEN [status |-> 200, detail |-> << >>,
                                   body |-> Limit(ordered, top_n)]
                             ELSE ErrorReply(e)]
    /\ UNCHANGED <<server, limiter>>
    /\ UNCHANGED chatVars

\* POST /chat/query_subtopics
QuerySubtopics(table, top_n, ordered, embedded) ==
    VectorSearch("query_subtopics", table, top_n, ordered, embedded)

\* POST /biolinks/search
SearchBiolinks(table, top_n, ordered, embedded) ==
    VectorSearch("biolinks_search", table, top_n, ordered, embedded)

NextSearch ==
    \/ \E table \in Tables, top_n \in -1..(MaxRows + 1), embedded \in BOOLEAN :
          \E ordered \in OrderBySimilarity(TableRows(table)) :
             QuerySubtopics(table, top_n, ordered, embedded)
    \/ \E table \in Tables, top_n \in -1..(MaxRows + 1), embedded \in BOOLEAN :
          \E ordered \in OrderBySimilarity(TableRows(table)) :
             SearchBiolinks(table, top_n, ordered, embedded)
    \/ RequestEnds

(***************************************************************************)
(* The routes that await one call at a time: diagrams and videos.          *)
(***************************************************************************)
NextSingle ==
    \/ \E route \in DiagramRoutes : GenerateDiagram(route)
    \/ GenerateVideo
    \/ \E i \in 1..Len(tasks) : TaskAcquire(i)
    \/ \E l \in LimiterNames : Tick(l)
    \/ \E i \in 1..Len(tasks) : CallRaises(i)
    \/ \E text \in ModelTexts, outcome \in {"ok", "oserror"} \cup PipelineSteps :
            DiagramCallReturns(text, outcome)
    \/ VideoCreateReturns
    \/ \E outcome \in {"dreaming", "completed", "failed", "raise"} : VideoPoll(outcome)
    \/ RequestEnds

\* The awaited create call of a video request returns or raises.
VideoCreateEnds ==
    /\ job.route = "video"
    /\ VideoCreateReturns \/ \E i \in 1..Len(tasks) : CallRaises(i)

\* The provider reports the end of the generation, or the poll raises.
VideoPollEnds ==
    \E outcome \in {"completed", "failed", "raise"} : VideoPoll(outcome)

InitRoutes ==
    /\ server = "up"
    /\ limiter = [l \in LimiterNames |-> 0]
    /\ job = IdleJob
    /\ tasks = << >>

NextRoutes ==
    \/ \E topics \in TopicLists : ExtractLectureSubtopics(topics)
    \/ \E items \in ExplanationInputs : GenerateSubtopicExplanations(items)
    \/ \E items \in QuestionInputs : GenerateQuestions(items)
    \/ \E route \in DiagramRoutes : GenerateDiagram(route)
    \/ GenerateVideo
    \/ ExtractLectureTopics
    \/ \E n \in 0..MaxAgentTopics : TopicsCallReturns(n)
    \/ \E i \in 1..Len(tasks) : TaskAcquire(i)
    \/ \E l \in LimiterNames : Tick(l)
    \/ \E i \in 1..Len(tasks) : TaskReturns(i)
    \/ \E i \in 1..Len(tasks) : CallRaises(i)
    \/ GatherReturns
    \/ \E text \in ModelTexts, outcome \in {"ok", "oserror"} \cup PipelineSteps :
            DiagramCallReturns(text, outcome)
    \/ VideoCreateReturns
    \/ \E outcome \in {"dreaming", "completed", "failed", "raise"} : VideoPoll(outcome)
    \/ \E route \in {"vectorize", "vectorize_array"}, n \in 0..MaxTexts, failAt \in 0..MaxTexts :
            Vectorize(route, n, failAt)
    \/ RequestEnds

(***************************************************************************)
(* Claims about the chat routers.                                          *)
(***************************************************************************)

\* C2: when a summary memory exists for the session, get_conversation_context
\* returns exactly one summary system entry followed by the last min(5, n) of
\* the n persisted messages, in stored order; never more than 6 entries.
C2_ContextIsSummaryPlusLastFive ==
    \A r \in Routers, sid \in SessionIds :
        HasMemory(r, sid) =>
            LET h == chat_history[sid]
                n == Len(h)
                k == Min(5, n)
                c == GetConversationContext(r, sid)
            IN /\ Len(c) = 1 + k
               /\ Len(c) <= 6
               /\ c[1].kind = "System"
               /\ "summary" \in DOMAIN c[1]
               /\ c[1].summary = summary_memories[r][sid]
               /\ \A i \in 1..k : c[1 + i] = h[n - k + i]
               /\ \A i \in 2..Len(c) : "summary" \notin DOMAIN c[i]

\* A handler built its prompt from a history longer than five messages.
C2_Witness ==
    \E s \in Slots :
        /\ InFlight(s)
        /\ HasMemory(req[s].router, req[s].session_id)
        /\ Len(chat_history[req[s].session_id]) > 5
        /\ Len(req[s].prompt) = 7

\* C3: a successful message request on session s that overlaps no other
\* request on s changes the persisted history from h to h followed by exactly
\* [Human(message), AI(reply)], and the response's history is the content of
\* every message of the new history in stored order, ending with the reply.
C3_MessageAppendsHumanThenAI ==
    \A s \in Slots :
        LET r == req[s] IN
        (r.pc = "done" /\ r.op = "message" /\ r.response.status = 200
            /\ ~r.overlapped) =>
            /\ r.hEnd = r.h0 \o <<HumanMessage(r.text), AIMessage(r.response.reply)>>
            /\ r.response.history = Contents(r.hEnd)
            /\ r.response.history[Len(r.response.history)] = r.response.reply

C3_Witness ==
    \E s \in Slots :
        /\ req[s].pc = "done" /\ req[s].op = "message"
        /\ req[s].response.status = 200 /\ ~req[s].overlapped
        /\ Len(req[s].h0) >= 3

\* C4: every successful create returns a session id no earlier session used,
\* and the persisted history of that session is then exactly
\* [System(welcome), Human(message), AI(reply)].
C4_CreateStartsFreshSession ==
    \A s \in Slots :
        LET r == req[s] IN
        (r.pc = "done" /\ r.op = "create" /\ r.response.status = 200) =>
            /\ r.h0 = << >>
            /\ \A o \in Slots \ {s} :
                   req[o].op = "create" => req[o].session_id # r.session_id
            /\ r.hEnd = <<SystemMessage(WelcomeContent(r.router)),
                          HumanMessage(r.text), AIMessage(r.response.reply)>>

\* Two sessions have been created, the second one successfully.
C4_Witness ==
    \E s \in Slots :
        /\ req[s].pc = "done" /\ req[s].op = "create"
        /\ req[s].response.status = 200
        /\ Cardinality(uuids) >= 2

\* Every message of h older than the last five is recorded in memory mem.
OlderMessagesRecorded(h, mem) ==
    \A i \in 1..(Len(h) - 5) : h[i].content \in Recorded(mem)

\* C5: at context-assembly time, every persisted message of the session older
\* than the last five has been recorded in the session's summary memory, also
\* for a memory created on demand for a session that already has messages.
C5_TruncationDropsNothing ==
    [][\A s \in Slots :
          (req[s].pc # "awaiting" /\ req'[s].pc = "awaiting") =>
              OlderMessagesRecorded(
                  chat_history'[req'[s].session_id],
                  summary_memories'[req'[s].router][req'[s].session_id])]_vars

\* The handler in slot s takes a step.
Acted(s) == req'[s].pc # req[s].pc \/ req'[s].n # req[s].n

\* What the handlers of a router read: the rows of the table, every session
\* id being open to them, and the router's own memory dictionary.
Observes(router, history, memories) == <<history, memories[router]>>

\* C11: a step of a request handled by one chat router changes nothing of
\* what the handlers of the other router read or return: requests to the
\* /newchat routes leave what the /chat routes observe for every session id
\* as it was, and the other way round.
C11_RoutersIndependent ==
    [][\A s \in Slots : Acted(s) =>
          \A o \in Routers \ {req'[s].router} :
              Observes(o, chat_history', summary_memories')
                  = Observes(o, chat_history, summary_memories)]_vars

\* C15: GET /chat/messages returns every persisted message of the session,
\* in stored order, with role system for System, user for Human, agent for
\* AI and unknown for any other kind, and changes neither the persisted
\* history of any session nor the summary-memory dictionaries.
C15_GetMessagesReadsOnly ==
    [][\A s \in Slots : (Acted(s) /\ req'[s].op = "messages") =>
          LET h == chat_history[req'[s].session_id]
              out == req'[s].response
          IN /\ chat_history' = chat_history
             /\ summary_memories' = summary_memories
             /\ out.status = 200 =>
                   /\ out.session_id = req'[s].session_id
                   /\ Len(out.history) = Len(h)
                   /\ \A i \in 1..Len(h) :
                         /\ out.history[i].content = h[i].content
                         /\ h[i].kind = "System" => out.history[i].role = "system"
                         /\ h[i].kind = "Human" => out.history[i].role = "user"
                         /\ h[i].kind = "AI" => out.history[i].role = "agent"
                         /\ h[i].kind \notin {"System", "Human", "AI"}
                               => out.history[i].role = "unknown"]_vars

\* The messages of a session with a welcome message and a whole turn have
\* been returned.
C15_Witness ==
    \E s \in Slots :
        /\ req[s].op = "messages"
        /\ req[s].response.status = 200
        /\ Len(req[s].response.history) >= 3
        /\ {req[s].response.history[i].role : i \in 1..Len(req[s].response.history)}
              = {"system", "user", "agent"}

\* C17: the prompt given to the chat agent has one line "<Kind>: <content>"
\* for each context entry, in order, Kind being System, Human or AI, then a
\* last line "User: <message>"; the message being persisted before the
\* context is built, it is in the prompt twice: in the last "Human:" line
\* and in the "User:" line.
C17_PromptFormat ==
    [][\A s \in Slots : (req[s].pc # "awaiting" /\ req'[s].pc = "awaiting") =>
          LET sid == req'[s].session_id
              c == ConversationContext(summary_memories'[req'[s].router],
                                       chat_history'[sid], sid)
              lines == req'[s].prompt
              n == Len(lines)
          IN /\ n = Len(c) + 1
             /\ \A i \in 1..Len(c) :
                   /\ lines[i].label \in {<<"System">>, <<"Human">>, <<"AI">>}
                   /\ lines[i].label = <<c[i].kind>>
                   /\ lines[i].content = c[i].content
             /\ lines[n].label = <<"User">>
             /\ lines[n].content = req'[s].text
             /\ n >= 2
             /\ lines[n - 1].label = <<"Human">>
             /\ lines[n - 1].content = req'[s].text]_vars

\* A message request in flight whose prompt holds a summary line, earlier
\* turns and the message twice.
C17_Witness ==
    \E s \in Slots :
        /\ InFlight(s)
        /\ req[s].op = "message"
        /\ Len(req[s].prompt) >= 5
        /\ req[s].prompt[1].label = <<"System">>
        /\ \E i \in 1..Len(req[s].prompt) : req[s].prompt[i].label = <<"AI">>
        /\ req[s].prompt[Len(req[s].prompt)].content = req[s].text
        /\ req[s].prompt[Len(req[s].prompt) - 1].content = req[s].text

\* C18: a chat turn whose agent call failed is answered 500 and is not
\* rolled back: the user message appended before the call stays in the
\* persisted history, its (message, "") pair stays in the summary memory,
\* and no AI message is appended for the turn.
C18_NoRollback ==
    \A s \in Slots :
        (req[s].pc = "done" /\ req[s].op \in {"create", "message"}
            /\ req[s].response.status = 500)
        => LET r == req[s]
               h == chat_history[r.session_id]
               mem == summary_memories[r.router][r.session_id]
           IN /\ \E i \in 1..Len(h) : h[i] = [kind |-> "Human", content |-> r.text]
              /\ \E i \in 1..Len(mem) : mem[i] = <<r.text, <<"", 0>>>>
              /\ \A i \in 1..Len(h) : h[i].kind = "AI" => h[i].content # <<"reply", r.n>>
              /\ \A i \in 1..Len(mem) : mem[i][1] = r.text => mem[i][2] = <<"", 0>>
              /\ (~r.overlapped /\ r.op = "message")
                    => r.hEnd = Append(r.h0, [kind |-> "Human", content |-> r.text])
              /\ (~r.overlapped /\ r.op = "create")
                    => /\ Len(r.hEnd) = 2
                       /\ r.hEnd[1].kind = "System"
                       /\ r.hEnd[2] = [kind |-> "Human", content |-> r.text]

\* A message request on a session with an earlier turn, failed by its agent
\* call: the history it leaves is one message longer than the one it found.
C18_Witness ==
    \E s \in Slots :
        /\ req[s].pc = "done"
        /\ req[s].op = "message"
        /\ req[s].response.status = 500
        /\ ~req[s].overlapped
        /\ Len(req[s].h0) >= 3
        /\ Len(req[s].hEnd) = Len(req[s].h0) + 1

(***************************************************************************)
(* Claims about the content-generation routes.                             *)
(***************************************************************************)
TaskIds == 1..Len(tasks)

\* C1: on every route, a failure raised while a request is processed ends
\* the request with an HTTP 500 response whose detail is the text of the
\* exception; no failure leaves a handler in any other form.
C1_EveryFailureIs500WithItsText ==
    (job.pc = "done" /\ job.raised # None)
        => /\ job.response.status = 500
           /\ job.response.detail = Str(job.raised)

\* C6: within one request every unit of work is issued exactly once: a unit
\* that has been started, has returned or has failed was called once, a unit
\* not yet started was not called, and no unit is ever called a second time.
C6_EachUnitIssuedOnce ==
    \A i \in TaskIds :
        /\ tasks[i].calls <= 1
        /\ tasks[i].st \in {"running", "ok", "failed"} => tasks[i].calls = 1
        /\ tasks[i].st \in {"created", "waiting"} => tasks[i].calls = 0

\* A request answered 500 after the call of one of its units failed.
C6_Witness ==
    /\ job.pc = "done"
    /\ job.response.status = 500
    /\ \E i \in TaskIds : tasks[i].st = "failed" /\ tasks[i].calls = 1

\* C7: a fan-out request one of whose calls failed ends with 500 and carries
\* none of the results; a 200 response is given only when every call of the
\* batch succeeded.
C7_FanOutIsAllOrNothing ==
    (job.pc = "done" /\ job.route \in FanOutRoutes)
        => /\ (\E i \in TaskIds : tasks[i].st = "failed")
                => job.response.status = 500 /\ job.response.body = << >>
           /\ job.response.status = 200
                => \A i \in TaskIds : tasks[i].st = "ok"
           /\ job.response.status \in {200, 500}

\* A batch answered 500 although another of its calls had succeeded.
C7_Witness ==
    /\ job.pc = "done"
    /\ job.route \in FanOutRoutes
    /\ job.response.status = 500
    /\ \E i \in TaskIds : tasks[i].st = "ok" /\ tasks[i].out # << >>
    /\ \E i \in TaskIds : tasks[i].st = "failed"

\* C8: every LLM call of subtopic extraction, explanation generation,
\* question generation and diagram generation is started only after the
\* task acquired capacity from a rate limiter.
C8_EveryCallAcquiresLimiter ==
    job.route \in FanOutRoutes \cup DiagramRoutes
        => \A i \in TaskIds : tasks[i].calls >= 1 => tasks[i].acquired

\* The tasks of the batch made for one subtopic occurrence, difficulty and type.
TasksFor(occ, difficulty, question_type) ==
    {i \in TaskIds : /\ tasks[i].occ = occ
                     /\ tasks[i].prompt.difficulty = difficulty
                     /\ tasks[i].prompt.question_type = question_type}

C10_NoSharedWrites ==
    job.route \in FanOutRoutes => Cardinality(job.writers) <= 1

\* C10 amended: the one mutable object the tasks of a batch share is the
\* rate limiter of the subtopics module, which each of its tasks writes when
\* it acquires; the explanation and question tasks write nothing shared; and
\* the result of every task is that of its own prompt, whatever the other
\* tasks did.
C10_OnlyLimiterShared ==
    job.route \in FanOutRoutes
        => /\ job.writers = {i \in TaskIds : tasks[i].acquired}
           /\ job.route # "subtopics" => job.writers = {}
           /\ job.route = "subtopics"
                => \A i \in TaskIds : tasks[i].calls = 1 <=> i \in job.writers
           /\ \A i \in TaskIds :
                tasks[i].st = "ok" => tasks[i].out = [of |-> tasks[i].prompt]
           /\ \A i \in TaskIds : \A j \in TaskIds :
                (tasks[i].st = "ok" /\ tasks[j].st = "ok"
                    /\ tasks[i].prompt = tasks[j].prompt)
                    => tasks[i].out = tasks[j].out

\* A subtopics batch whose tasks finished out of list order, two of them
\* having written the limiter.
C10_Witness ==
    /\ job.route = "subtopics"
    /\ job.pc = "running"
    /\ Cardinality(job.writers) >= 2
    /\ \E i \in TaskIds : \E j \in TaskIds :
          i < j /\ tasks[i].st = "running" /\ tasks[j].st = "ok"

\* The tasks of the batch made for one subtopic occurrence.
TasksAt(occ) == {t \in TaskIds : tasks[t].occ = occ}

\* C13: /explanations/generate starts exactly one LLM call for each (topic
\* item, subtopic) occurrence of the request, k calls for k subtopics in all
\* with duplicates counted, and a successful response has k explanations.
C13_OneExplanationPerSubtopic ==
    (job.route = "explanations" /\ job.pc # "idle")
        => LET items == job.input
               k == TotalSubtopics(items)
           IN /\ Len(tasks) = k
              /\ \A t \in TaskIds : tasks[t].calls = 1
              /\ \A i \in 1..Len(items) : \A j \in 1..Len(items[i].subtopics) :
                    /\ Cardinality(TasksAt(<<i, j>>)) = 1
                    /\ \A t \in TasksAt(<<i, j>>) :
                          /\ tasks[t].prompt.topic = items[i].topic
                          /\ tasks[t].prompt.subtopic = items[i].subtopics[j]
                          /\ tasks[t].prompt.others = items[i].subtopics
              /\ job.response.status = 200 => Len(job.response.body) = k

\* An explanation request naming one subtopic twice, answered 200.
C13_Witness ==
    /\ job.route = "explanations"
    /\ job.pc = "done"
    /\ job.response.status = 200
    /\ Len(job.response.body) >= 2
    /\ \E i \in 1..Len(job.input) :
          /\ Len(job.input[i].subtopics) >= 2
          /\ job.input[i].subtopics[1] = job.input[i].subtopics[2]

\* C14 as stated: a 200 response of /videos/generate comes only after a poll
\* returned "completed" and carries the video asset of that generation, and
\* at least one poll is made before any response.
C14_PollBeforeAnyResponse ==
    (job.route = "video" /\ job.pc = "done")
        => /\ job.polls >= 1
           /\ job.response.status = 200
                => /\ job.state = "completed"
                   /\ job.response.body = <<"generation.assets.video", job.polls>>

\* C14 amended: a 200 response comes only after a poll returned "completed"
\* and carries the video asset of the generation that poll fetched, so at
\* least one poll precedes every 200 response; a response that no poll
\* precedes is the 500 of a create call that failed.
C14_PollBeforeSuccess ==
    (job.route = "video" /\ job.pc = "done")
        => /\ job.response.status \in {200, 500}
           /\ job.response.status = 200
                => /\ job.polls >= 1
                   /\ job.state = "completed"
                   /\ tasks[1].st = "ok"
                   /\ job.response.body = <<"generation.assets.video", job.polls>>
           /\ job.polls = 0
                => /\ job.response.status = 500
                   /\ tasks[1].st = "failed"
                   /\ job.response.body = << >>

\* A video answered 200 by the second poll, the first having found the
\* generation still under way.
C14_Witness ==
    /\ job.route = "video"
    /\ job.pc = "done"
    /\ job.response.status = 200
    /\ job.polls >= 2
    /\ job.state = "completed"

\* C12: a successful /subtopics/extract response has one result entry for
\* each topic of the request, in request order, whatever the length of the
\* topics list.
C12_OneEntryPerTopic ==
    (job.route = "subtopics" /\ job.pc = "done" /\ job.response.status = 200)
        => /\ Len(job.response.body) = Len(job.input)
           /\ \A i \in 1..Len(job.input) :
                 /\ i <= Len(job.response.body)
                 /\ job.response.body[i].of.topic = job.input[i]

\* C16: the topics of a successful /topics/extract response are the first
\* min(10, n) of the n topics the agent produced, in the agent's order, never
\* more than 10, and description and recourses are the agent's, unchanged.
C16_AtMostTenTopics ==
    (job.route = "topics" /\ job.pc = "done" /\ job.response.status = 200)
        => LET output == tasks[1].out
               body == job.response.body
               n == Len(output.topics)
           IN /\ Len(body.topics) <= 10
              /\ Len(body.topics) = IF n <= 10 THEN n ELSE 10
              /\ \A i \in 1..Len(body.topics) : body.topics[i] = output.topics[i]
              /\ body.description = output.description
              /\ body.recourses = output.recourses

\* The agent produced more than ten topics and the response has ten.
C16_Witness ==
    /\ job.route = "topics"
    /\ job.pc = "done"
    /\ job.response.status = 200
    /\ Len(tasks[1].out.topics) > 10
    /\ Len(job.response.body.topics) = 10
    /\ Len(job.response.body.recourses) > 10

\* C19: a /diagram/generate/png request one of whose pipeline steps fails
\* (pdflatex, axohelp, pdfinfo, the page size, gs, convert) ends with an HTTP
\* 500 response carrying the error text, and the server keeps serving.
C19_PipelineFailureIs500 ==
    (job.route = "diagram_png" /\ job.pc = "done" /\ job.raised # None)
        => /\ job.response.status = 500
           /\ job.response.detail # << >>
           /\ server = "up"

\* C20: when a poll of /videos/generate returns state "failed", polling
\* stops, no video_url is returned, and the request ends with HTTP 500 whose
\* detail is "Generation failed: <failure_reason>".
C20_FailedGenerationDetail ==
    (job.route = "video" /\ job.state = "failed")
        => /\ job.pc = "done"
           /\ job.response.status = 500
           /\ job.response.body = << >>
           /\ job.response.detail = <<"Generation failed: ", "failure_reason">>

\* C21: provided the provider in the end reports "completed" or "failed"
\* (or a poll raises), every /videos/generate request responds; the handler
\* leaves its loop by such a poll only, and a poll that finds any other
\* state leaves it polling, without response, however many polls it made.
C21_VideoRespondsOnlyAtFinalState ==
    /\ (job.route = "video" /\ job.pc = "running")
            ~> (job.route = "video" /\ job.pc = "done")
    /\ [][(job.route = "video" /\ job.pc = "running" /\ job'.pc # "running")
            => /\ job'.pc = "done"
               /\ \/ tasks'[1].st = "failed"
                  \/ /\ job'.polls = job.polls + 1
                     /\ \/ job'.state \in {"completed", "failed"}
                        \/ job'.raised.text = <<"poll failed">>]_vars
    /\ [][(job.route = "video" /\ job.pc = "running" /\ tasks[1].st = "ok"
                /\ job'.polls = job.polls + 1
                /\ job'.state \notin {"completed", "failed"}
                /\ job'.raised.text # <<"poll failed">>)
            => /\ job'.pc = "running"
               /\ job'.response.status = 0
               /\ job'.state = "dreaming"]_vars

\* A video request answered after as many polls of a generation under way
\* as the model follows, and one more.
C21_Witness ==
    /\ job.route = "video"
    /\ job.pc = "done"
    /\ job.polls = MaxPolls + 1
    /\ job.response.status \in {200, 500}

\* C22: /diagram/generate returns the model's text unchanged as
\* document_content with the width and height of the first size comment of
\* the text; for a text without size comment it answers 500 with detail
\* "Diagram size comment not found in the output." and returns no document.
C22_DiagramSizeFromFirstComment ==
    (job.route = "diagram" /\ job.pc = "done" /\ tasks[1].st = "ok")
        => LET text == tasks[1].out
               comments == {i \in 1..Len(text) : text[i].kind = "size"}
           IN IF comments # {}
              THEN LET first == CHOOSE i \in comments : \A k \in comments : i <= k
                   IN /\ job.response.status = 200
                      /\ job.response.body.document_content = text
                      /\ job.response.body.diagram_width = text[first].w
                      /\ job.response.body.diagram_height = text[first].h
              ELSE /\ job.response.status = 500
                   /\ job.response.detail
                        = <<"Diagram size comment not found in the output.">>
                   /\ job.response.body = << >>

SearchRoutes == {"query_subtopics", "biolinks_search"}

\* C23: a vector-similarity lookup returns at most top_n rows of the table,
\* no row of the table left out has a smaller similarity value than a row
\* returned, the rows come in non-decreasing order of that value, and a
\* table of fewer than top_n rows is returned whole.
C23_TopNBySimilarity ==
    (job.route \in SearchRoutes /\ job.pc = "done" /\ job.response.status = 200)
        => LET rows == job.input.rows
               top_n == job.input.top_n
               found == job.response.body
               ids == {found[i].id : i \in 1..Len(found)}
           IN /\ Len(found) <= top_n
              /\ Len(found) = IF Len(rows) <= top_n THEN Len(rows) ELSE top_n
              /\ Cardinality(ids) = Len(found)
              /\ \A i \in 1..Len(found) :
                    /\ found[i].id \in 1..Len(rows)
                    /\ found[i] = rows[found[i].id]
              /\ \A i \in 1..Len(found) : \A k \in 1..Len(rows) :
                    k \notin ids => found[i].similarity <= rows[k].similarity
              /\ \A i \in 1..Len(found) : \A j \in 1..Len(found) :
                    i < j => found[i].similarity <= found[j].similarity
              /\ Len(rows) < top_n => ids = 1..Len(rows)

\* A search that left out a row and returned the others in an order that is
\* not the table's.
C23_Witness ==
    /\ job.route \in SearchRoutes
    /\ job.pc = "done"
    /\ job.response.status = 200
    /\ Len(job.response.body) >= 2
    /\ Len(job.input.rows) > Len(job.response.body)
    /\ job.response.body[1].id > job.response.body[2].id
    /\ job.response.body[1].similarity < job.response.body[2].similarity

Init == InitChat /\ InitRoutes

Next == NextChat \/ NextRoutes \/ NextBatch \/ NextSingle \/ NextSearch

\* The chat routers alone, and the content-generation routes alone: the two
\* share no state.
SpecChat == Init /\ [][NextChat]_vars

SpecRoutes == Init /\ [][NextRoutes]_vars

SpecBatch == Init /\ [][NextBatch]_vars

SpecSearch == Init /\ [][NextSearch]_vars

SpecSingle ==
    /\ Init
    /\ [][NextSingle]_vars
    /\ WF_vars(VideoCreateEnds)
    /\ WF_vars(VideoPollEnds)

Spec == Init /\ [][Next]_vars

====
